---- MODULE Spec2Model ----
(***************************************************************************)
(* SmartLab Gateway Simulator (src/main.py): the JSON-RPC dispatcher, the  *)
(* in-memory test registry list_of_tests, the config.json store and the    *)
(* clock read by time.time().                                              *)
(*                                                                         *)
(* Encoding of Python values:                                              *)
(*   - an optional value (dict.get, a JSON null) is a tuple: None is <<>>  *)
(*     and a present value v is <<v>>;                                     *)
(*   - a dict is a function from keys to values; a missing key is a key    *)
(*     outside DOMAIN;                                                     *)
(*   - list_of_tests is a sequence, so the Python index i is i + 1 here;   *)
(*   - an f-string message is the tuple of its parts, a formatted         *)
(*     optional value being the part <<>> (printed None) or <<v>>;        *)
(*   - floats of the waveform are scaled by 100 to integers.               *)
(***************************************************************************)
EXTENDS Integers, Sequences, FiniteSets, TLC

VARIABLES
    list_of_tests,  \* main.py:12   the in-memory registry (same object as config["tests"])
    stored_tests,   \* the "tests" of config.json as last written by json.dump
    now,            \* int(time.time())
    req,            \* the decoded call jsonrpc_handler has answered, None between calls
    resp,           \* the envelope jsonrpc_handler returned for req, None between calls
    pre,            \* the registry, the store and the clock as the call found them
    prev,           \* the call answered just before req when two follow in succession
    tasks           \* two requests in flight at the same time: their calls, the state
                    \* they arrived in, what each coroutine holds and has returned,
                    \* and the order in which they returned

vars == <<list_of_tests, stored_tests, now, req, resp, pre, prev, tasks>>

-----------------------------------------------------------------------------
(* Bounds of the model *)

MaxTests == 2

MaxTime == 2

(* config.json values (the values of the test fixture, the duration shortened) *)

test_duration_seconds == 1

API_KEY == "TESTKEY"

deviceId == "DEV-1"

deviceName == "SimMachine"

list_of_licenses == << [code |-> "LIC-AAA"], [code |-> "LIC-BBB"] >>

-----------------------------------------------------------------------------
(* Python values *)

None == << >>

Some(v) == << v >>

\* params.get(k)
Get(params, k) == IF k \in DOMAIN params THEN Some(params[k]) ELSE None

\* params.get(k, default)
GetOr(params, k, default) == IF k \in DOMAIN params THEN params[k] ELSE default

\* d[k] = v on a dict: the key is added when it is missing
SetKey(d, k, v) == [x \in (DOMAIN d) \cup {k} |-> IF x = k THEN v ELSE d[x]]

\* math.sqrt on the perfect squares the model feeds it
math_sqrt(x) == CHOOSE y \in 0..x : y * y = x

-----------------------------------------------------------------------------
(* Helpers of jsonrpc_handler *)

\* main.py:28-32 with the result member kept beside the error
jsonrpc_response_with_result(id, result, error) ==
    IF error # None
    THEN [jsonrpc |-> "2.0", id |-> id, result |-> result, error |-> error[1]]
    ELSE [jsonrpc |-> "2.0", id |-> id, result |-> result]

\* main.py:28-32   error is None or Some(dict); a non-empty dict is truthy
jsonrpc_response(id, result, error) ==
    IF error # None
    THEN [jsonrpc |-> "2.0", id |-> id, error |-> error[1]]
    ELSE [jsonrpc |-> "2.0", id |-> id, result |-> result]

\* What a branch of the handler leaves behind: the registry, the store, the
\* envelope it returns
Outcome(tests, stored, envelope) ==
    [tests |-> tests, stored |-> stored, resp |-> envelope]

\* main.py:64 comparing only a key that is present
api_key_mismatch_if_present(params) ==
    "api_key" \in DOMAIN params /\ params.api_key # API_KEY

\* main.py:64   params.get("api_key") != API_KEY
api_key_mismatch(params) == Get(params, "api_key") # Some(API_KEY)

\* main.py:74 comparing only a device id that is present
device_id_mismatch_if_present(params) ==
    "device_id" \in DOMAIN params /\ params.device_id # deviceId

\* main.py:74 (and 84, 89, 97, 109, 145, 175, 222, 241)
device_id_mismatch(params) == Get(params, "device_id") # Some(deviceId)

\* main.py:75   the not-found error naming the supplied device id
device_not_found(params, id) ==
    jsonrpc_response(id, None, Some(
        [code |-> -1,
         message |-> <<"Device ID ", Get(params, "device_id"), " not found">>]))

\* main.py:112  next((t for t in list_of_tests if t["test_number"] == test_number), None)
\* as an index into the sequence: the first match, 0 when there is none, and
\* -1 when the scan reaches a record without the key "test_number" before any
\* match (the subscript t["test_number"] raises KeyError)
find_test(tests, test_number) ==
    LET scan[i \in 1..(Len(tests) + 1)] ==
            IF i > Len(tests) THEN 0
            ELSE IF "test_number" \notin DOMAIN tests[i] THEN -1
            ELSE IF Some(tests[i].test_number) = test_number THEN i
            ELSE scan[i + 1]
    IN  scan[1]

\* main.py:267-268  the except clause: code -32000 with str(e) as the message
internal_error(message, id) ==
    jsonrpc_response(id, None, Some([code |-> -32000, message |-> message]))

\* str(e) of the KeyError that t["test_number"] raises
KeyError_test_number == "'test_number'"

\* main.py:114  the error for a test number that is not in the registry
test_not_found(test_number, id) ==
    jsonrpc_response(id, None, Some(
        [code |-> -1,
         message |-> <<"Test number ", test_number, " not found">>]))

\* main.py:116 without the comparison of the status
run_time_elapsed_any_status(test, t) ==
    t - test.sample_reception_epoch_time >= test_duration_seconds

\* main.py:116 with > for >=
run_time_elapsed_strict(test, t) ==
    /\ test.test_status_code = "RUN"
    /\ t - test.sample_reception_epoch_time > test_duration_seconds

\* main.py:116  test_status_code == "RUN" and int(time.time()) - sample_reception_epoch_time >= duration
run_time_elapsed(test, t) ==
    /\ test.test_status_code = "RUN"
    /\ t - test.sample_reception_epoch_time >= test_duration_seconds

\* main.py:117-118 without the assignment of main.py:117
mark_end_stop_mode_only(test) == SetKey(test, "stop_mode_id", Some(2))

\* main.py:117-118 without the assignment of main.py:118
mark_end_status_only(test) == [test EXCEPT !.test_status_code = "END"]

\* main.py:117-118
mark_end(test) ==
    SetKey([test EXCEPT !.test_status_code = "END"], "stop_mode_id", Some(2))

\* main.py:116-118 (and 161-163) left out
auto_complete_never(test, t) == test

\* main.py:116-118 (and 161-163): the test after the auto-completion rule
auto_complete(test, t) == IF run_time_elapsed(test, t) THEN mark_end(test) ELSE test

\* main.py:120-122  json.dump of config with config["tests"] = list_of_tests:
\* the file's tests are the registry at the moment of the write
json_dump(tests) == tests

-----------------------------------------------------------------------------
(* The synthetic waveform of cloneAndStartTest, main.py:189-194, with delta_t, *)
(* value and maxNewton scaled by 100                                           *)

range_stop == 10000

range_step == 5

\* main.py:193 holding the peak instead of falling
sample_value_clipped(x, maxNewton) == IF x < maxNewton THEN x ELSE maxNewton

\* main.py:193   y = x if x < maxNewton else -x + (maxNewton * 2)
sample_value(x, maxNewton) == IF x < maxNewton THEN x ELSE -x + (maxNewton * 2)

\* main.py:191-194  the list built by the loop over range(0, 100_00, 5)
results_data(maxNewton) ==
    [k \in 1..(range_stop \div range_step) |->
        LET x == (k - 1) * range_step
        IN  [delta_t |-> x, value |-> sample_value(x, maxNewton)]]

\* The registry keeps the list of data points of a cloned channel as the
\* maxNewton that generated it; data_points gives the list itself.
data_points(channel) ==
    IF "maxNewton" \in DOMAIN channel.list_of_data_points
    THEN results_data(channel.list_of_data_points.maxNewton)
    ELSE << >>

-----------------------------------------------------------------------------
(* The branches of jsonrpc_handler. Each takes the registry, the store, the *)
(* clock value the branch reads, the params and the request id, and gives   *)
(* the Outcome of the branch.                                               *)

\* main.py:52-53
getRevision(tests, stored, t, params, id) ==
    Outcome(tests, stored, jsonrpc_response(id, "0.3", None))

\* main.py:55-62   x is [type, val]; "x < 0" on a str raises TypeError, which
\* the except clause of main.py:267-268 turns into code -32000
sqrt(tests, stored, t, params, id) ==
    LET x == Get(params, "x") IN
    IF x # None /\ x[1].type = "str"
    THEN Outcome(tests, stored, jsonrpc_response(id, None, Some(
            [code |-> -32000,
             message |-> "'<' not supported between instances of 'str' and 'int'"])))
    ELSE IF x = None \/ x[1].val < 0
    THEN Outcome(tests, stored, jsonrpc_response(id, None, Some(
            [code |-> -1,
             message |-> "Error in doSqrt: sqrt is only applicable to non-negative values"])))
    ELSE Outcome(tests, stored,
            jsonrpc_response(id, [status |-> "OK", y |-> math_sqrt(x[1].val)], None))

\* main.py:65
invalid_api_key(tests, stored, t, params, id) ==
    Outcome(tests, stored, jsonrpc_response(id, None, Some(
        [code |-> -401, message |-> "Invalid API key"])))

\* main.py:67-71
getListOfAllMachines(tests, stored, t, params, id) ==
    Outcome(tests, stored, jsonrpc_response(id,
        [status |-> "OK",
         list_of_all_device_ids |->
            <<deviceId, "756200G-0E-0028000C", "28XYPP-05-00470034">>], None))

\* main.py:73-81
getMachineIdentity(tests, stored, t, params, id) ==
    IF device_id_mismatch(params)
    THEN Outcome(tests, stored, device_not_found(params, id))
    ELSE Outcome(tests, stored, jsonrpc_response(id,
            [status |-> "OK",
             machine_name |-> deviceName,
             machine_type_id |-> 256,
             list_of_license_codes |->
                [i \in 1..Len(list_of_licenses) |-> list_of_licenses[i].code]], None))

\* main.py:83-86
getMachineStatus(tests, stored, t, params, id) ==
    IF device_id_mismatch(params)
    THEN Outcome(tests, stored, device_not_found(params, id))
    ELSE Outcome(tests, stored,
            jsonrpc_response(id, [status |-> "OK", machine_status_id |-> 2], None))

\* main.py:88-94
getListOfAllTests(tests, stored, t, params, id) ==
    IF device_id_mismatch(params)
    THEN Outcome(tests, stored, device_not_found(params, id))
    ELSE Outcome(tests, stored, jsonrpc_response(id,
            [status |-> "OK",
             list_of_all_test_numbers |->
                [i \in 1..Len(tests) |-> GetOr(tests[i], "test_number", None)]], None))

\* main.py:96-106
getListOfAllTestsBySpecimenCode(tests, stored, t, params, id) ==
    LET specimen_code == Get(params, "specimen_code")
        matching_tests ==
            SelectSeq(tests, LAMBDA test : Get(test, "specimen_code") = specimen_code)
    IN
    IF device_id_mismatch(params)
    THEN Outcome(tests, stored, device_not_found(params, id))
    ELSE IF matching_tests = << >>
    THEN Outcome(tests, stored, jsonrpc_response(id, None, Some(
            [code |-> -1,
             message |-> <<"No tests found for specimen code ", specimen_code>>])))
    ELSE Outcome(tests, stored, jsonrpc_response(id,
            [status |-> "OK", message |-> "Method not implemented yet"], None))

\* main.py:108-132
getTestInfoAndStatus(tests, stored, t, params, id) ==
    LET test_number == Get(params, "test_number")
        i == find_test(tests, test_number)
        tests2 == [tests EXCEPT ![i] = auto_complete(tests[i], t)]
        test == tests2[i]
    IN
    IF device_id_mismatch(params)
    THEN Outcome(tests, stored, device_not_found(params, id))
    ELSE IF i < 0
    THEN Outcome(tests, stored, internal_error(KeyError_test_number, id))
    ELSE IF i = 0
    THEN Outcome(tests, stored, test_not_found(test_number, id))
    ELSE Outcome(tests2, json_dump(tests2), jsonrpc_response(id,
            [status |-> "OK",
             test_description |-> test.test_description,
             specimen_code |-> test.specimen_code,
             specimen_description |-> test.specimen_description,
             sample_reception_epoch_time |-> test.sample_reception_epoch_time,
             customer_id |-> test.customer_id,
             test_status_code |-> test.test_status_code], None))

\* main.py:134-139
getCustomer(tests, stored, t, params, id) ==
    Outcome(tests, stored, jsonrpc_response(id,
        [status |-> "OK", description |-> "PNN Scavi SRL", address |-> "123 Test Street",
         phone1 |-> "000111222", phone2 |-> None, email |-> "test@example.com",
         contact1 |-> "John Doe", contact2 |-> None, annotation |-> None], None))

\* main.py:141-142
getListOfAllCustomers(tests, stored, t, params, id) ==
    Outcome(tests, stored, jsonrpc_response(id,
        [status |-> "OK", list_of_all_customers |-> <<1, 2, 3, 4>>], None))

\* main.py:144-153
getTestAcquisitionSettings(tests, stored, t, params, id) ==
    LET test_number == Get(params, "test_number")
        i == find_test(tests, test_number)
    IN
    IF device_id_mismatch(params)
    THEN Outcome(tests, stored, device_not_found(params, id))
    ELSE IF i < 0
    THEN Outcome(tests, stored, internal_error(KeyError_test_number, id))
    ELSE IF i = 0
    THEN Outcome(tests, stored, test_not_found(test_number, id))
    ELSE Outcome(tests, stored, jsonrpc_response(id,
            [status |-> "OK", profile_id |-> 1,
             list_of_stages |-> "Not implemented yet"], None))

\* main.py:155-172 without the rule of main.py:161-163
getTestAcquiredDataAndResults_as_found(tests, stored, t, params, id) ==
    LET test_number == Get(params, "test_number")
        i == find_test(tests, test_number)
        test == tests[i]
    IN
    IF i < 0
    THEN Outcome(tests, stored, internal_error(KeyError_test_number, id))
    ELSE IF i = 0
    THEN Outcome(tests, stored, test_not_found(test_number, id))
    ELSE Outcome(tests, json_dump(tests), jsonrpc_response(id,
            [status |-> "OK",
             list_of_channel_acquired_data |->
                GetOr(test, "list_of_channel_acquired_data", << >>),
             stop_mode_id |-> GetOr(test, "stop_mode_id", None)], None))

\* main.py:155-172   no device_id check in this branch
getTestAcquiredDataAndResults(tests, stored, t, params, id) ==
    LET test_number == Get(params, "test_number")
        i == find_test(tests, test_number)
        tests2 == [tests EXCEPT ![i] = auto_complete(tests[i], t)]
        test == tests2[i]
    IN
    IF i < 0
    THEN Outcome(tests, stored, internal_error(KeyError_test_number, id))
    ELSE IF i = 0
    THEN Outcome(tests, stored, test_not_found(test_number, id))
    ELSE Outcome(tests2, json_dump(tests2), jsonrpc_response(id,
            [status |-> "OK",
             list_of_channel_acquired_data |->
                GetOr(test, "list_of_channel_acquired_data", << >>),
             stop_mode_id |-> GetOr(test, "stop_mode_id", None)], None))

\* main.py:196-212   the test cloneAndStartTest appends (it has no stop_mode_id key)
new_test(new_test_number, t, params, maxNewton) ==
    [test_number |-> new_test_number,
     status |-> "OK",
     test_description |-> GetOr(params, "test_description", "Cloned Test"),
     specimen_code |-> GetOr(params, "specimen_code", "001"),
     specimen_description |-> GetOr(params, "specimen_description", "Cloned Specimen"),
     sample_reception_epoch_time |-> t,
     customer_id |-> GetOr(params, "customer_id", 1),
     test_status_code |-> "RUN",
     list_of_channel_acquired_data |-> <<
        [stage_name |-> "COMPRESSION_STAGE",
         sub_stage_index |-> 1,
         channel_type |-> "Analog",
         channel_index |-> 1,
         list_of_data_points |-> [maxNewton |-> maxNewton]] >>]

\* the guard of main.py:184 left out
last_test_running_unguarded(tests) == FALSE

\* main.py:184 looking at every test
any_test_running(tests) ==
    \E k \in 1..Len(tests) : tests[k].test_status_code = "RUN"

\* main.py:184   list_of_tests[new_test_number - 1]["test_status_code"] == "RUN"
last_test_running(tests) == tests[Len(tests)].test_status_code = "RUN"

\* main.py:183 counting from one
next_test_number_from_one(tests) == Len(tests) + 1

\* main.py:183   new_test_number = len(list_of_tests)
next_test_number(tests) == Len(tests)

\* main.py:174-219 with the specimen code of the source test as the default
\* of main.py:200
cloneAndStartTest_from_source(tests, stored, t, params, id, maxNewton) ==
    LET test_number == Get(params, "test_number")
        i == find_test(tests, test_number)
        new_test_number == next_test_number(tests)
        copy == [new_test(new_test_number, t, params, maxNewton) EXCEPT
                    !.specimen_code =
                        GetOr(params, "specimen_code", tests[i].specimen_code)]
        tests2 == Append(tests, copy)
    IN
    IF device_id_mismatch(params)
    THEN Outcome(tests, stored, device_not_found(params, id))
    ELSE IF i < 0
    THEN Outcome(tests, stored, internal_error(KeyError_test_number, id))
    ELSE IF i = 0
    THEN Outcome(tests, stored, test_not_found(test_number, id))
    ELSE IF last_test_running(tests)
    THEN Outcome(tests, stored, jsonrpc_response(id, None, Some(
            [code |-> -1, message |-> "Cannot clone a running test"])))
    ELSE Outcome(tests2, json_dump(tests2), jsonrpc_response(id,
            [status |-> "OK", new_test_number |-> new_test_number], None))

\* main.py:174-219 with the rule of main.py:116-118 applied to the last test
\* before the guard of main.py:184
cloneAndStartTest_on_derived_status(tests, stored, t, params, id, maxNewton) ==
    LET test_number == Get(params, "test_number")
        i == find_test(tests, test_number)
        new_test_number == next_test_number(tests)
        derived == IF tests = << >> THEN tests
                   ELSE [tests EXCEPT ![Len(tests)] = auto_complete(tests[Len(tests)], t)]
        tests2 == Append(derived, new_test(new_test_number, t, params, maxNewton))
    IN
    IF device_id_mismatch(params)
    THEN Outcome(tests, stored, device_not_found(params, id))
    ELSE IF i < 0
    THEN Outcome(tests, stored, internal_error(KeyError_test_number, id))
    ELSE IF i = 0
    THEN Outcome(tests, stored, test_not_found(test_number, id))
    ELSE IF last_test_running(derived)
    THEN Outcome(tests, stored, jsonrpc_response(id, None, Some(
            [code |-> -1, message |-> "Cannot clone a running test"])))
    ELSE Outcome(tests2, json_dump(tests2), jsonrpc_response(id,
            [status |-> "OK", new_test_number |-> new_test_number], None))

\* main.py:174-219   maxNewton is the value random.uniform(50, 100) returns
cloneAndStartTest(tests, stored, t, params, id, maxNewton) ==
    LET test_number == Get(params, "test_number")
        i == find_test(tests, test_number)
        new_test_number == next_test_number(tests)
        tests2 == Append(tests, new_test(new_test_number, t, params, maxNewton))
    IN
    IF device_id_mismatch(params)
    THEN Outcome(tests, stored, device_not_found(params, id))
    ELSE IF i < 0
    THEN Outcome(tests, stored, internal_error(KeyError_test_number, id))
    ELSE IF i = 0
    THEN Outcome(tests, stored, test_not_found(test_number, id))
    ELSE IF last_test_running(tests)
    THEN Outcome(tests, stored, jsonrpc_response(id, None, Some(
            [code |-> -1, message |-> "Cannot clone a running test"])))
    ELSE Outcome(tests2, json_dump(tests2), jsonrpc_response(id,
            [status |-> "OK", new_test_number |-> new_test_number], None))

\* main.py:229 rejecting only a running test
not_in_pause_only_run(test) == test.test_status_code = "RUN"

\* main.py:229   test["test_status_code"] != "PAUSE"
not_in_pause(test) == test.test_status_code # "PAUSE"

\* main.py:232-233 without the reset of main.py:233
resume_keep_time(test, t) == [test EXCEPT !.test_status_code = "RUN"]

\* main.py:232-233
resume(test, t) ==
    [test EXCEPT !.test_status_code = "RUN", !.sample_reception_epoch_time = t]

\* main.py:221-238 without the write of main.py:234-236
continueTest_unsaved(tests, stored, t, params, id) ==
    LET test_number == Get(params, "test_number")
        i == find_test(tests, test_number)
        tests2 == [tests EXCEPT ![i] = resume(tests[i], t)]
    IN
    IF device_id_mismatch(params)
    THEN Outcome(tests, stored, device_not_found(params, id))
    ELSE IF i < 0
    THEN Outcome(tests, stored, internal_error(KeyError_test_number, id))
    ELSE IF i = 0
    THEN Outcome(tests, stored, test_not_found(test_number, id))
    ELSE IF not_in_pause(tests[i])
    THEN Outcome(tests, stored, jsonrpc_response(id, None, Some(
            [code |-> -1, status |-> "TEST NOT IN PAUSE"])))
    ELSE Outcome(tests2, stored, jsonrpc_response(id, [status |-> "OK"], None))

\* main.py:221-238
continueTest(tests, stored, t, params, id) ==
    LET test_number == Get(params, "test_number")
        i == find_test(tests, test_number)
        tests2 == [tests EXCEPT ![i] = resume(tests[i], t)]
    IN
    IF device_id_mismatch(params)
    THEN Outcome(tests, stored, device_not_found(params, id))
    ELSE IF i < 0
    THEN Outcome(tests, stored, internal_error(KeyError_test_number, id))
    ELSE IF i = 0
    THEN Outcome(tests, stored, test_not_found(test_number, id))
    ELSE IF not_in_pause(tests[i])
    THEN Outcome(tests, stored, jsonrpc_response(id, None, Some(
            [code |-> -1, status |-> "TEST NOT IN PAUSE"])))
    ELSE Outcome(tests2, json_dump(tests2),
            jsonrpc_response(id, [status |-> "OK"], None))

\* main.py:251 with > for >=
duration_elapsed_strict(test, t) ==
    t - test.sample_reception_epoch_time > test_duration_seconds

\* main.py:251   int(time.time()) - test["sample_reception_epoch_time"] >= duration
duration_elapsed(test, t) ==
    t - test.sample_reception_epoch_time >= test_duration_seconds

\* main.py:240-261   the branch of main.py:251-254 returns without writing config.json
stopTest(tests, stored, t, params, id) ==
    LET test_number == Get(params, "test_number")
        i == find_test(tests, test_number)
        ended == [tests EXCEPT ![i] = mark_end(tests[i])]
        paused == [tests EXCEPT ![i].test_status_code = "PAUSE"]
    IN
    IF device_id_mismatch(params)
    THEN Outcome(tests, stored, device_not_found(params, id))
    ELSE IF i < 0
    THEN Outcome(tests, stored, internal_error(KeyError_test_number, id))
    ELSE IF i = 0
    THEN Outcome(tests, stored, test_not_found(test_number, id))
    ELSE IF tests[i].test_status_code # "RUN"
    THEN Outcome(tests, stored, jsonrpc_response(id, None, Some(
            [code |-> -1,
             message |-> <<"Test number ", test_number, " is not running">>])))
    ELSE IF duration_elapsed(tests[i], t)
    THEN Outcome(ended, stored, jsonrpc_response(id, None, Some(
            [code |-> -1, status |-> "TEST NOT STOPPABLE"])))
    ELSE Outcome(paused, json_dump(paused),
            jsonrpc_response(id, [status |-> "OK"], None))

\* main.py:265 with the fixed message of JSON-RPC 2.0
unknown_method_unnamed(tests, stored, t, method, params, id) ==
    Outcome(tests, stored, jsonrpc_response(id, None, Some(
        [code |-> -32601, message |-> <<"Method ", "", " not found">>])))

\* main.py:263-265
unknown_method(tests, stored, t, method, params, id) ==
    Outcome(tests, stored, jsonrpc_response(id, None, Some(
        [code |-> -32601, message |-> <<"Method ", method, " not implemented">>])))

\* main.py:50-268   the if / elif chain, in the order of the source
jsonrpc_handler(tests, stored, t, method, params, id, maxNewton) ==
    IF method = "getRevision" THEN getRevision(tests, stored, t, params, id)
    ELSE IF method = "sqrt" THEN sqrt(tests, stored, t, params, id)
    ELSE IF api_key_mismatch(params) THEN invalid_api_key(tests, stored, t, params, id)
    ELSE IF method = "getListOfAllMachines"
        THEN getListOfAllMachines(tests, stored, t, params, id)
    ELSE IF method = "getMachineIdentity"
        THEN getMachineIdentity(tests, stored, t, params, id)
    ELSE IF method = "getMachineStatus"
        THEN getMachineStatus(tests, stored, t, params, id)
    ELSE IF method = "getListOfAllTests"
        THEN getListOfAllTests(tests, stored, t, params, id)
    ELSE IF method = "getListOfAllTestsBySpecimenCode"
        THEN getListOfAllTestsBySpecimenCode(tests, stored, t, params, id)
    ELSE IF method = "getTestInfoAndStatus"
        THEN getTestInfoAndStatus(tests, stored, t, params, id)
    ELSE IF method = "getCustomer" THEN getCustomer(tests, stored, t, params, id)
    ELSE IF method = "getListOfAllCustomers"
        THEN getListOfAllCustomers(tests, stored, t, params, id)
    ELSE IF method = "getTestAcquisitionSettings"
        THEN getTestAcquisitionSettings(tests, stored, t, params, id)
    ELSE IF method = "getTestAcquiredDataAndResults"
        THEN getTestAcquiredDataAndResults(tests, stored, t, params, id)
    ELSE IF method = "cloneAndStartTest"
        THEN cloneAndStartTest(tests, stored, t, params, id, maxNewton)
    ELSE IF method = "continueTest" THEN continueTest(tests, stored, t, params, id)
    ELSE IF method = "stopTest" THEN stopTest(tests, stored, t, params, id)
    ELSE unknown_method(tests, stored, t, method, params, id)

-----------------------------------------------------------------------------
(* The inputs the model feeds the handler *)

Empty == << >>

\* The bags, and each bag with key k added with a value of vals
WithOpt(bags, k, vals) == bags \cup {SetKey(b, k, v) : b \in bags, v \in vals}

\* Each bag with key k set to a value of vals
With(bags, k, vals) == {SetKey(b, k, v) : b \in bags, v \in vals}

ReqIds == {1}

UnknownMethods == {"deleteTest"}

\* values random.uniform(50, 100) can return, scaled by 100
PeakSet == {7500}

Authorized == {[api_key |-> API_KEY]}

\* right key, and the device id right, wrong or missing
DeviceParams == WithOpt(Authorized, "device_id", {deviceId, "NOPE"})

\* a missing key, and a wrong key with otherwise valid params
Unauthorized ==
    {Empty,
     [api_key |-> "WRONG", device_id |-> deviceId, test_number |-> 0,
      specimen_code |-> "001"]}

TestNumbers == 0..MaxTests

\* the right device with a test number (or none); a wrong or a missing device
\* with the first test number
TestParams ==
    WithOpt(With(Authorized, "device_id", {deviceId}), "test_number", TestNumbers)
    \cup {[api_key |-> API_KEY, device_id |-> "NOPE", test_number |-> 0],
          [api_key |-> API_KEY, test_number |-> 0]}

\* the fields cloneAndStartTest copies from params: none, or all (the values
\* of test_clone_and_start_test_success)
CloneFields ==
    {Empty,
     [test_description |-> "Clone", specimen_code |-> "999",
      specimen_description |-> "Cloned", customer_id |-> 5]}

Merge(a, b) == [k \in (DOMAIN a) \cup (DOMAIN b) |-> IF k \in DOMAIN b THEN b[k] ELSE a[k]]

SqrtArgs ==
    {[type |-> "int", val |-> -1], [type |-> "int", val |-> 0],
     [type |-> "int", val |-> 9],
     [type |-> "str", val |-> "nine"]}

SqrtParams == Unauthorized \cup WithOpt(Authorized, "x", SqrtArgs)

PlainParams == Unauthorized \cup Authorized

MachineParams == Unauthorized \cup DeviceParams

SpecimenParams ==
    Unauthorized
    \cup WithOpt(With(Authorized, "device_id", {deviceId}), "specimen_code", {"001", "999"})
    \cup {[api_key |-> API_KEY, device_id |-> "NOPE", specimen_code |-> "001"],
          [api_key |-> API_KEY, specimen_code |-> "001"]}

TestMethodParams == Unauthorized \cup TestParams

CloneParams == Unauthorized \cup {Merge(p, f) : p \in TestParams, f \in CloneFields}

Params(method) ==
    CASE method = "sqrt" -> SqrtParams
      [] method \in {"getMachineIdentity", "getMachineStatus", "getListOfAllTests"}
            -> MachineParams
      [] method = "getListOfAllTestsBySpecimenCode" -> SpecimenParams
      [] method \in {"getTestInfoAndStatus", "getTestAcquisitionSettings",
                     "getTestAcquiredDataAndResults", "continueTest", "stopTest"}
            -> TestMethodParams
      [] method = "cloneAndStartTest" -> CloneParams
      [] OTHER -> PlainParams

-----------------------------------------------------------------------------
(* The catalog config.json holds at start-up (the shape of the fixture of   *)
(* src/tests/Compression_test.py:19-44)                                      *)

catalog_test(n, status_code) ==
    [test_number |-> n,
     status |-> "OK",
     test_description |-> <<"T", n>>,
     specimen_code |-> IF n = 0 THEN "001" ELSE "002",
     specimen_description |-> <<"Spec", n>>,
     sample_reception_epoch_time |-> 0,
     customer_id |-> 1,
     test_status_code |-> status_code,
     stop_mode_id |-> IF status_code = "END" THEN Some(2) ELSE None,
     list_of_channel_acquired_data |-> << >>]

StatusCodes == {"RUN", "PAUSE", "END"}

Catalogs ==
    {<< >>}
    \cup {<<catalog_test(0, a)>> : a \in StatusCodes}
    \cup {<<catalog_test(0, a), catalog_test(1, b)>> : a \in StatusCodes, b \in StatusCodes}

\* main.py:10-12
Init ==
    /\ list_of_tests \in Catalogs
    /\ stored_tests = list_of_tests
    /\ now = 0
    /\ req = None
    /\ resp = None
    /\ pre = None
    /\ prev = None
    /\ tasks = None

-----------------------------------------------------------------------------
(* Actions *)

\* main.py:44-268   one call of jsonrpc_handler, from the decoded request to
\* the envelope it returns
CallWithin(limit, method, params, id, maxNewton) ==
    LET out == jsonrpc_handler(list_of_tests, stored_tests, now,
                               method, params, id, maxNewton)
    IN  /\ Len(out.tests) <= limit
        /\ list_of_tests' = out.tests
        /\ stored_tests' = out.stored
        /\ req' = Some([method |-> method, params |-> params, id |-> id])
        /\ resp' = Some(out.resp)
        /\ pre' = Some([tests |-> list_of_tests, stored |-> stored_tests, time |-> now])
        /\ UNCHANGED <<now, prev, tasks>>

\* a call that leaves the registry within the bound of the model
Call(method, params, id, maxNewton) ==
    CallWithin(MaxTests, method, params, id, maxNewton)

CallMethod(method) ==
    \E params \in Params(method), id \in ReqIds : Call(method, params, id, None)

GetRevision ==
    /\ req = None
    /\ CallMethod("getRevision")

Sqrt ==
    /\ req = None
    /\ CallMethod("sqrt")

GetListOfAllMachines ==
    /\ req = None
    /\ CallMethod("getListOfAllMachines")

GetMachineIdentity ==
    /\ req = None
    /\ CallMethod("getMachineIdentity")

GetMachineStatus ==
    /\ req = None
    /\ CallMethod("getMachineStatus")

GetListOfAllTests ==
    /\ req = None
    /\ CallMethod("getListOfAllTests")

GetListOfAllTestsBySpecimenCode ==
    /\ req = None
    /\ CallMethod("getListOfAllTestsBySpecimenCode")

GetTestInfoAndStatus ==
    /\ req = None
    /\ CallMethod("getTestInfoAndStatus")

GetCustomer ==
    /\ req = None
    /\ CallMethod("getCustomer")

GetListOfAllCustomers ==
    /\ req = None
    /\ CallMethod("getListOfAllCustomers")

GetTestAcquisitionSettings ==
    /\ req = None
    /\ CallMethod("getTestAcquisitionSettings")

GetTestAcquiredDataAndResults ==
    /\ req = None
    /\ CallMethod("getTestAcquiredDataAndResults")

CloneAndStartTest ==
    /\ req = None
    /\ \E params \in Params("cloneAndStartTest"), id \in ReqIds, maxNewton \in PeakSet :
            Call("cloneAndStartTest", params, id, maxNewton)

ContinueTest ==
    /\ req = None
    /\ CallMethod("continueTest")

StopTest ==
    /\ req = None
    /\ CallMethod("stopTest")

UnknownMethod ==
    /\ req = None
    /\ \E method \in UnknownMethods : CallMethod(method)

\* The envelope is handed to the HTTP layer and the handler is free again
Return ==
    /\ req # None
    /\ req' = None
    /\ resp' = None
    /\ pre' = None
    /\ prev' = None
    /\ UNCHANGED <<list_of_tests, stored_tests, now, tasks>>

\* time.time() advances between calls
Tick ==
    /\ req = None
    /\ now < MaxTime
    /\ now' = now + 1
    /\ UNCHANGED <<list_of_tests, stored_tests, req, resp, pre, prev, tasks>>

Next ==
    \/ GetRevision
    \/ Sqrt
    \/ GetListOfAllMachines
    \/ GetMachineIdentity
    \/ GetMachineStatus
    \/ GetListOfAllTests
    \/ GetListOfAllTestsBySpecimenCode
    \/ GetTestInfoAndStatus
    \/ GetCustomer
    \/ GetListOfAllCustomers
    \/ GetTestAcquisitionSettings
    \/ GetTestAcquiredDataAndResults
    \/ CloneAndStartTest
    \/ ContinueTest
    \/ StopTest
    \/ UnknownMethod
    \/ Return
    \/ Tick

Spec == Init /\ [][Next]_vars

\* A second getTestInfoAndStatus with the params of the one just answered
\* follows it in succession (main.py:108-132 run again)
QueryAgain ==
    /\ req # None
    /\ prev = None
    /\ tasks = None
    /\ req[1].method = "getTestInfoAndStatus"
    /\ \E id \in ReqIds :
        LET out == jsonrpc_handler(list_of_tests, stored_tests, now,
                                   "getTestInfoAndStatus", req[1].params, id, None)
        IN  /\ list_of_tests' = out.tests
            /\ stored_tests' = out.stored
            /\ req' = Some([method |-> "getTestInfoAndStatus",
                            params |-> req[1].params, id |-> id])
            /\ resp' = Some(out.resp)
            /\ pre' = Some([tests |-> list_of_tests, stored |-> stored_tests,
                            time |-> now])
            /\ prev' = Some([req |-> req[1], resp |-> resp[1], pre |-> pre[1]])
            /\ UNCHANGED <<now, tasks>>

\* time.time() advances between the two queries
Wait ==
    /\ req # None
    /\ prev = None
    /\ tasks = None
    /\ req[1].method = "getTestInfoAndStatus"
    /\ now < MaxTime
    /\ now' = now + 1
    /\ UNCHANGED <<list_of_tests, stored_tests, req, resp, pre, prev, tasks>>

NextTwice ==
    \/ Next
    \/ QueryAgain
    \/ Wait

\* Spec, and two getTestInfoAndStatus calls in succession
SpecTwice == Init /\ [][NextTwice]_vars

-----------------------------------------------------------------------------
(* The dispatcher on any decoded call: any method name, several request    *)
(* ids, and catalogs that hold a record without the key "test_number"      *)
(* (main.py:10-12 loads config.json as it is)                              *)

\* req.id values (main.py:23)
EnvelopeIds == {1, 2}

\* the method names of the if / elif chain of main.py:52-240
DispatchTable ==
    {"getRevision", "sqrt", "getListOfAllMachines", "getMachineIdentity",
     "getMachineStatus", "getListOfAllTests", "getListOfAllTestsBySpecimenCode",
     "getTestInfoAndStatus", "getCustomer", "getListOfAllCustomers",
     "getTestAcquisitionSettings", "getTestAcquiredDataAndResults",
     "cloneAndStartTest", "continueTest", "stopTest"}

\* req.method values (main.py:22): the names of the chain and others
MethodNames == DispatchTable \cup UnknownMethods \cup {"getrevision", "StopTest"}

\* a record as config.json can hold it, without the key "test_number"
Keyless(test) == [k \in (DOMAIN test) \ {"test_number"} |-> test[k]]

KeylessCatalogs ==
    {<<Keyless(catalog_test(0, a))>> : a \in StatusCodes}
    \cup {<<catalog_test(0, a), Keyless(catalog_test(1, b))>> :
                a \in StatusCodes, b \in StatusCodes}
    \cup {<<Keyless(catalog_test(0, a)), catalog_test(1, b)>> :
                a \in StatusCodes, b \in StatusCodes}

\* main.py:10-12
InitEnvelope ==
    /\ list_of_tests \in Catalogs \cup KeylessCatalogs
    /\ stored_tests = list_of_tests
    /\ now \in 0..MaxTime
    /\ req = None
    /\ resp = None
    /\ pre = None
    /\ prev = None
    /\ tasks = None

\* main.py:44-268   jsonrpc_handler on a decoded call of any method name
Handle ==
    /\ req = None
    /\ \E method \in MethodNames, id \in EnvelopeIds, maxNewton \in PeakSet :
            \E params \in Params(method) : Call(method, params, id, maxNewton)

NextEnvelope ==
    \/ Handle
    \/ Return

SpecEnvelope == InitEnvelope /\ [][NextEnvelope]_vars

-----------------------------------------------------------------------------
(* cloneAndStartTest with the peaks random.uniform(50, 100) can return,    *)
(* on the catalogs and on the fixture of src/tests/Compression_test.py     *)
(* (tests [END, PAUSE])                                                    *)

\* values of random.uniform(50, 100), scaled by 100: the ends of the range,
\* values on and off the sampling grid, values above the last sample
Peaks == {5000, 5003, 7500, 7502, 9995, 9996, 9999}

\* main.py:174-219 with maxNewton drawn by main.py:187
CloneAnyPeak ==
    /\ req = None
    /\ \E params \in Params("cloneAndStartTest"), id \in ReqIds, maxNewton \in Peaks :
            CallWithin(MaxTests + 1, "cloneAndStartTest", params, id, maxNewton)

NextWaveform ==
    \/ CloneAnyPeak
    \/ Return
    \/ Tick

SpecWaveform == Init /\ [][NextWaveform]_vars

-----------------------------------------------------------------------------
(* The lifecycle calls on a registry that can grow by two tests beyond the *)
(* catalogs, so that a test can be cloned while three others exist         *)

\* the right key and device, and a test number
SourceParams ==
    With(With(Authorized, "device_id", {deviceId}), "test_number", 0..(MaxTests + 1))

\* main.py:174-219
CloneFromSource ==
    /\ req = None
    /\ \E p \in SourceParams, f \in CloneFields, id \in ReqIds, maxNewton \in PeakSet :
            CallWithin(MaxTests + 2, "cloneAndStartTest", Merge(p, f), id, maxNewton)

\* main.py:221-238
ContinueNamed ==
    /\ req = None
    /\ \E p \in SourceParams, id \in ReqIds :
            CallWithin(MaxTests + 2, "continueTest", p, id, None)

\* main.py:240-261
StopNamed ==
    /\ req = None
    /\ \E p \in SourceParams, id \in ReqIds :
            CallWithin(MaxTests + 2, "stopTest", p, id, None)

\* main.py:10-12   the catalog, loaded at any clock value
InitLifecycle ==
    /\ list_of_tests \in Catalogs
    /\ stored_tests = list_of_tests
    /\ now \in 0..MaxTime
    /\ req = None
    /\ resp = None
    /\ pre = None
    /\ prev = None
    /\ tasks = None

NextLifecycle ==
    \/ CloneFromSource
    \/ ContinueNamed
    \/ StopNamed
    \/ Return

SpecLifecycle == InitLifecycle /\ [][NextLifecycle]_vars

-----------------------------------------------------------------------------
(* Two requests in flight at the same time. Each request is served by a    *)
(* coroutine on the one event loop of the server process; the loop runs a  *)
(* coroutine until it awaits or returns, and only then runs another.       *)

\* as if the handler awaited between its checks and its writes
yields_before_writes_when_saving(method) ==
    method \in {"cloneAndStartTest", "continueTest", "stopTest"}

\* main.py:45-268   the body of the coroutine jsonrpc_handler holds no await
\* expression: no branch hands control back to the loop before it returns
yields_before_writes(method) == FALSE

\* main.py:120-122, 165-167, 215-217, 234-236, 257-259   the branches that
\* dump the registry are those that return a result
dumps(method, envelope) ==
    /\ method \in {"getTestInfoAndStatus", "getTestAcquiredDataAndResults",
                   "cloneAndStartTest", "continueTest", "stopTest"}
    /\ "result" \in DOMAIN envelope

\* main.py:117-118, 162-163, 213, 232-233, 252-253, 256   the handler writes
\* through the references it holds: the records it changed on the list it
\* saw are changed on the list as it is now, the test it built is appended
written(out, seen, tests) ==
    LET changed == [i \in 1..Len(tests) |->
                        IF i <= Len(seen) /\ out.tests[i] # seen[i]
                        THEN out.tests[i] ELSE tests[i]]
    IN  IF Len(out.tests) > Len(seen)
        THEN Append(changed, out.tests[Len(out.tests)])
        ELSE changed

RacingMethods ==
    {"cloneAndStartTest", "continueTest", "stopTest", "getTestInfoAndStatus"}

\* the right key and device, and a test number
RacingParams ==
    With(With(Authorized, "device_id", {deviceId}), "test_number", TestNumbers)

Pending(k) == tasks # None /\ tasks[1].resps[k] = None

\* main.py:44-45   two requests arrive before either handler has run
Accept ==
    /\ tasks = None
    /\ Len(list_of_tests) <= MaxTests
    /\ \E m1 \in RacingMethods, m2 \in RacingMethods,
          p1 \in RacingParams, p2 \in RacingParams, maxNewton \in PeakSet :
            tasks' = Some([start |-> [tests |-> list_of_tests,
                                      stored |-> stored_tests, time |-> now],
                           calls |-> << [method |-> m1, params |-> p1, id |-> 1],
                                        [method |-> m2, params |-> p2, id |-> 2] >>,
                           maxNewton |-> maxNewton,
                           held  |-> << None, None >>,
                           resps |-> << None, None >>,
                           done  |-> << >>])
    /\ UNCHANGED <<list_of_tests, stored_tests, now, req, resp, pre, prev>>

\* main.py:45-268   the loop runs one of the pending coroutines: from its
\* start, or from where it awaited, up to its next await or its return
RunCoroutine(k) ==
    /\ Pending(k)
    /\ LET T    == tasks[1]
           c    == T.calls[k]
           out  == IF T.held[k] = None
                   THEN jsonrpc_handler(list_of_tests, stored_tests, now,
                                        c.method, c.params, c.id, T.maxNewton)
                   ELSE T.held[k][1].out
           seen == IF T.held[k] = None THEN list_of_tests ELSE T.held[k][1].seen
       IN  IF T.held[k] = None /\ yields_before_writes(c.method)
           THEN /\ tasks' = Some([T EXCEPT !.held[k] =
                                        Some([out |-> out, seen |-> seen])])
                /\ UNCHANGED <<list_of_tests, stored_tests>>
           ELSE /\ list_of_tests' = written(out, seen, list_of_tests)
                /\ stored_tests' = IF dumps(c.method, out.resp)
                                   THEN json_dump(list_of_tests')
                                   ELSE stored_tests
                /\ tasks' = Some([T EXCEPT !.held[k] = None,
                                           !.resps[k] = Some(out.resp),
                                           !.done = Append(@, k)])
    /\ UNCHANGED <<now, req, resp, pre, prev>>

Run == \E k \in 1..2 : RunCoroutine(k)

\* main.py:53-265   both envelopes have been returned to the HTTP layer
Deliver ==
    /\ tasks # None
    /\ \A k \in 1..2 : ~Pending(k)
    /\ tasks' = None
    /\ UNCHANGED <<list_of_tests, stored_tests, now, req, resp, pre, prev>>

NextConcurrent ==
    \/ Accept
    \/ Run
    \/ Deliver

SpecConcurrent == InitLifecycle /\ [][NextConcurrent]_vars

-----------------------------------------------------------------------------
(* The service started on a config.json whose tests hold any stop_mode_id: *)
(* null, the value 2, or another code, whatever their status               *)

StopModes == {None, Some(1), Some(2)}

\* main.py:10-12   a test of config.json with the stop_mode_id the file gives it
catalog_test_with(n, status_code, stop_mode) ==
    [catalog_test(n, status_code) EXCEPT !.stop_mode_id = stop_mode]

StopModeCatalogs ==
    {<< >>}
    \cup {<<catalog_test_with(0, a, s)>> : a \in StatusCodes, s \in StopModes}

\* main.py:10-12
InitStopMode ==
    /\ list_of_tests \in StopModeCatalogs
    /\ stored_tests = list_of_tests
    /\ now = 0
    /\ req = None
    /\ resp = None
    /\ pre = None
    /\ prev = None
    /\ tasks = None

\* the calls that look a test up, and the clock
NextOnTests ==
    \/ GetTestInfoAndStatus
    \/ GetTestAcquisitionSettings
    \/ GetTestAcquiredDataAndResults
    \/ CloneAndStartTest
    \/ ContinueTest
    \/ StopTest
    \/ Return
    \/ Tick

SpecStopMode == InitStopMode /\ [][NextOnTests]_vars

\* the same calls on the catalogs of Init
SpecOnTests == Init /\ [][NextOnTests]_vars

-----------------------------------------------------------------------------
(* Vocabulary of the properties: the call that has been answered *)

Answered == req # None

Method == req[1].method

Args == req[1].params

HasArg(k, v) == k \in DOMAIN Args /\ Args[k] = v

Authenticated == HasArg("api_key", API_KEY)

DeviceMatches == HasArg("device_id", deviceId)

\* an authenticated, device-matching call of method m has been answered
ValidCall(m) == Answered /\ Method = m /\ Authenticated /\ DeviceMatches

Succeeded == "result" \in DOMAIN resp[1]

Failed(code) == "error" \in DOMAIN resp[1] /\ resp[1].error.code = code

Before == pre[1].tests

\* the call names a test of the registry as the call found it
NamesTest == "test_number" \in DOMAIN Args /\ Args.test_number < Len(Before)

\* the position of the named test in the registry
Target == Args.test_number + 1

Status(tests, i) == tests[i].test_status_code

StopMode(test) == IF "stop_mode_id" \in DOMAIN test THEN test.stop_mode_id ELSE None

\* elapsed time of the named test at the moment of the call
Elapsed == pre[1].time - Before[Target].sample_reception_epoch_time

-----------------------------------------------------------------------------
(* C1  Terminality: once a test's status is END, no step (no call of any   *)
(* method, at any clock value) moves it back to RUN or PAUSE: in every     *)
(* step, a test that is END before it is still in the registry and END     *)
(* after it.                                                               *)
C1_Terminality ==
    [][\A i \in 1..Len(list_of_tests) :
          Status(list_of_tests, i) = "END"
          => i <= Len(list_of_tests') /\ Status(list_of_tests', i) = "END"]_vars

\* continueTest has been called on a test that was END, and it is still END
C1_Witness ==
    /\ ValidCall("continueTest") /\ NamesTest
    /\ Status(Before, Target) = "END"
    /\ Status(list_of_tests, Target) = "END"

(* C2 as stated, on a registry that has a last test: an authenticated,     *)
(* device-matching cloneAndStartTest fails with code -1 and an unchanged   *)
(* registry when the last test is RUN, and succeeds otherwise, appending   *)
(* one test and returning the previous count                               *)
C2_CloneGuardAsStated ==
    ValidCall("cloneAndStartTest") /\ Before # << >> =>
        IF Status(Before, Len(Before)) = "RUN"
        THEN Failed(-1) /\ list_of_tests = Before
        ELSE /\ Succeeded
             /\ Len(list_of_tests) = Len(Before) + 1
             /\ SubSeq(list_of_tests, 1, Len(Before)) = Before
             /\ resp[1].result.new_test_number = Len(Before)

(* C2  Clone guard, amended: an authenticated, device-matching             *)
(* cloneAndStartTest fails with code -1 and an unchanged registry when its *)
(* test_number names no test of the registry or the last test is RUN, and  *)
(* succeeds otherwise, appending exactly one test and returning            *)
(* new_test_number equal to the number of tests before the call.           *)
C2_CloneGuard ==
    ValidCall("cloneAndStartTest") =>
        IF ~NamesTest \/ Status(Before, Len(Before)) = "RUN"
        THEN Failed(-1) /\ list_of_tests = Before
        ELSE /\ Succeeded
             /\ Len(list_of_tests) = Len(Before) + 1
             /\ SubSeq(list_of_tests, 1, Len(Before)) = Before
             /\ resp[1].result.new_test_number = Len(Before)

\* a clone has succeeded, and the test it appended is in the registry
C2_Witness ==
    /\ ValidCall("cloneAndStartTest") /\ Succeeded
    /\ Len(list_of_tests) = Len(Before) + 1
    /\ Status(Before, Len(Before)) # "RUN"

(* C3  stopTest on an existing test (authenticated, device-matching): RUN  *)
(* with elapsed < duration becomes PAUSE and the call succeeds; RUN with   *)
(* elapsed >= duration becomes END with stop_mode_id 2 and the call fails  *)
(* with code -1; a test that is not RUN is left unchanged and the call     *)
(* fails with code -1.                                                     *)
C3_StopTest ==
    ValidCall("stopTest") /\ NamesTest =>
        IF Status(Before, Target) # "RUN"
        THEN Failed(-1) /\ list_of_tests = Before
        ELSE IF Elapsed < test_duration_seconds
        THEN Succeeded /\ Status(list_of_tests, Target) = "PAUSE"
        ELSE /\ Failed(-1)
             /\ Status(list_of_tests, Target) = "END"
             /\ StopMode(list_of_tests[Target]) = Some(2)

\* stopTest at elapsed == duration has ended the test and reported failure
C3_Witness ==
    /\ ValidCall("stopTest") /\ NamesTest
    /\ Status(Before, Target) = "RUN"
    /\ Elapsed = test_duration_seconds
    /\ Status(list_of_tests, Target) = "END"
    /\ Failed(-1)

(* C4  continueTest on an existing test (authenticated, device-matching)   *)
(* succeeds only from PAUSE: it then sets the status to RUN and            *)
(* sample_reception_epoch_time to the current time; from RUN or END it     *)
(* fails with code -1 and leaves the status and the reception time as they *)
(* were.                                                                   *)
C4_ContinueTest ==
    ValidCall("continueTest") /\ NamesTest =>
        IF Status(Before, Target) = "PAUSE"
        THEN /\ Succeeded
             /\ Status(list_of_tests, Target) = "RUN"
             /\ list_of_tests[Target].sample_reception_epoch_time = pre[1].time
        ELSE /\ Failed(-1)
             /\ Status(list_of_tests, Target) = Status(Before, Target)
             /\ list_of_tests[Target].sample_reception_epoch_time
                    = Before[Target].sample_reception_epoch_time

\* a paused test whose last RUN period began earlier has been resumed: its
\* reception time is the time of the call
C4_Witness ==
    /\ ValidCall("continueTest") /\ NamesTest /\ Succeeded
    /\ Status(Before, Target) = "PAUSE"
    /\ Before[Target].sample_reception_epoch_time < pre[1].time
    /\ list_of_tests[Target].sample_reception_epoch_time = pre[1].time

(* C5  Auto-completion on getTestInfoAndStatus: a valid call on an         *)
(* existing test that is RUN with elapsed >= duration sets it to END with  *)
(* stop_mode_id 2 in the registry and reports test_status_code END; on a   *)
(* test that is RUN with elapsed < duration, PAUSE or END it leaves the    *)
(* status unchanged and reports it.                                        *)
C5_AutoCompletion ==
    ValidCall("getTestInfoAndStatus") /\ NamesTest =>
        /\ Succeeded
        /\ resp[1].result.test_status_code = Status(list_of_tests, Target)
        /\ IF Status(Before, Target) = "RUN" /\ Elapsed >= test_duration_seconds
           THEN /\ Status(list_of_tests, Target) = "END"
                /\ StopMode(list_of_tests[Target]) = Some(2)
           ELSE Status(list_of_tests, Target) = Status(Before, Target)

\* a status query at elapsed == duration has ended a running test
C5_Witness ==
    /\ ValidCall("getTestInfoAndStatus") /\ NamesTest /\ Succeeded
    /\ Status(Before, Target) = "RUN"
    /\ Elapsed = test_duration_seconds
    /\ resp[1].result.test_status_code = "END"

(* C6  Idempotence of status queries (under SpecTwice): when a valid       *)
(* getTestInfoAndStatus on a test that is RUN with its duration elapsed is *)
(* followed by a second one on the same test, at the same or a later clock *)
(* value, both report test_status_code END, every other field of the two   *)
(* results is the same, and the registry after the second call is the      *)
(* registry after the first.                                               *)
C6_Idempotence ==
    (/\ prev # None
     /\ ValidCall("getTestInfoAndStatus") /\ NamesTest
     /\ Status(prev[1].pre.tests, Target) = "RUN"
     /\ prev[1].pre.time - prev[1].pre.tests[Target].sample_reception_epoch_time
            >= test_duration_seconds)
    => /\ "result" \in DOMAIN prev[1].resp
       /\ Succeeded
       /\ prev[1].resp.result.test_status_code = "END"
       /\ resp[1].result.test_status_code = "END"
       /\ resp[1].result = prev[1].resp.result
       /\ list_of_tests = Before

\* the second query came at a later clock value than the first, which had
\* ended the running test
C6_Witness ==
    /\ prev # None
    /\ ValidCall("getTestInfoAndStatus") /\ NamesTest
    /\ Status(prev[1].pre.tests, Target) = "RUN"
    /\ prev[1].pre.time - prev[1].pre.tests[Target].sample_reception_epoch_time
            >= test_duration_seconds
    /\ pre[1].time > prev[1].pre.time
    /\ resp[1].result.test_status_code = "END"

(* C7  Shared-secret guard: a call of any method other than getRevision    *)
(* and sqrt (unknown methods included) whose api_key is not the configured *)
(* secret is answered with error code -401 and leaves the registry and the *)
(* store as they were; getRevision and sqrt are never answered with -401,  *)
(* and getRevision returns the revision whatever the api_key.              *)
C7_SharedSecretGuard ==
    Answered =>
        IF Method \in {"getRevision", "sqrt"}
        THEN /\ ~Failed(-401)
             /\ Method = "getRevision" => Succeeded /\ resp[1].result = "0.3"
        ELSE ~Authenticated =>
                /\ Failed(-401)
                /\ list_of_tests = Before
                /\ stored_tests = pre[1].stored

\* stopTest with a wrong key, the right device and a running test was
\* answered with -401 and the test is still running
C7_Witness ==
    /\ Answered /\ Method = "stopTest"
    /\ HasArg("api_key", "WRONG") /\ DeviceMatches /\ NamesTest
    /\ Status(Before, Target) = "RUN"
    /\ Failed(-401)
    /\ Status(list_of_tests, Target) = "RUN"

DeviceScoped ==
    {"getMachineIdentity", "getMachineStatus", "getListOfAllTests",
     "getListOfAllTestsBySpecimenCode", "getTestInfoAndStatus",
     "getTestAcquisitionSettings", "cloneAndStartTest", "continueTest", "stopTest"}

(* C8  Device-identity guard: an authenticated call of a device-scoped     *)
(* method whose device_id is not the configured one is answered with error *)
(* code -1 and a message naming the supplied id, whether or not the test   *)
(* number exists, and leaves the registry and the store as they were;      *)
(* getTestAcquiredDataAndResults with a wrong or missing device_id         *)
(* proceeds: on an existing test it succeeds and applies auto-completion.  *)
C8_DeviceGuard ==
    Answered /\ Authenticated /\ ~DeviceMatches =>
        /\ Method \in DeviceScoped =>
            /\ Failed(-1)
            /\ resp[1].error.message
                    = <<"Device ID ", Get(Args, "device_id"), " not found">>
            /\ list_of_tests = Before
            /\ stored_tests = pre[1].stored
        /\ Method = "getTestAcquiredDataAndResults" =>
            IF NamesTest
            THEN /\ Succeeded
                 /\ Status(list_of_tests, Target) =
                        IF Status(Before, Target) = "RUN"
                           /\ Elapsed >= test_duration_seconds
                        THEN "END" ELSE Status(Before, Target)
            ELSE Failed(-1) /\ list_of_tests = Before

\* stopTest for another device on a running test was refused, naming the
\* device, and the test is still running
C8_Witness ==
    /\ Answered /\ Method = "stopTest" /\ Authenticated
    /\ HasArg("device_id", "NOPE") /\ NamesTest
    /\ Status(Before, Target) = "RUN"
    /\ Failed(-1)
    /\ resp[1].error.message = <<"Device ID ", Some("NOPE"), " not found">>
    /\ Status(list_of_tests, Target) = "RUN"

(* C9  Registry numbering: in every reachable state each test's            *)
(* test_number equals its insertion index (0..size-1, so unique, without   *)
(* gaps or reuse); a call removes no test and keeps every test number, the *)
(* size grows only by one and only on a successful cloneAndStartTest, and  *)
(* a valid getListOfAllTests returns exactly these numbers in order.       *)
C9_Numbering ==
    /\ \A i \in 1..Len(list_of_tests) : list_of_tests[i].test_number = i - 1
    /\ Answered =>
        /\ Len(list_of_tests) >= Len(Before)
        /\ \A i \in 1..Len(Before) :
                list_of_tests[i].test_number = Before[i].test_number
        /\ Len(list_of_tests) # Len(Before) =>
                /\ Len(list_of_tests) = Len(Before) + 1
                /\ Method = "cloneAndStartTest"
                /\ Succeeded
        /\ ValidCall("getListOfAllTests") =>
                /\ Succeeded
                /\ resp[1].result.list_of_all_test_numbers
                        = [i \in 1..Len(list_of_tests) |-> i - 1]

\* getListOfAllTests has returned the numbers of a registry whose last test
\* was appended by cloneAndStartTest
C9_Witness ==
    /\ ValidCall("getListOfAllTests") /\ Succeeded
    /\ Len(list_of_tests) = 2
    /\ "stop_mode_id" \notin DOMAIN list_of_tests[2]
    /\ resp[1].result.list_of_all_test_numbers = <<0, 1>>

Lifecycle ==
    {"cloneAndStartTest", "continueTest", "stopTest", "getTestInfoAndStatus",
     "getTestAcquiredDataAndResults"}

(* C10  Persist before success: when cloneAndStartTest, continueTest,      *)
(* stopTest, getTestInfoAndStatus or getTestAcquiredDataAndResults has     *)
(* returned a success result, the tests saved in the store equal the       *)
(* in-memory registry, the change made by that call included.              *)
C10_PersistBeforeSuccess ==
    Answered /\ Method \in Lifecycle /\ Succeeded => stored_tests = list_of_tests

\* continueTest has succeeded on a store that was behind the registry, and
\* the store now holds the registry with the resumed test
C10_Witness ==
    /\ ValidCall("continueTest") /\ Succeeded
    /\ pre[1].stored # Before
    /\ list_of_tests # Before
    /\ stored_tests = list_of_tests

LookupMethods ==
    {"getTestInfoAndStatus", "getTestAcquisitionSettings",
     "getTestAcquiredDataAndResults", "cloneAndStartTest", "continueTest", "stopTest"}

\* the scan for the named test reaches a record without the key
\* "test_number" before it reaches a match
ScanRaises ==
    \E i \in 1..Len(Before) :
        /\ "test_number" \notin DOMAIN Before[i]
        /\ \A j \in 1..(i - 1) :
                "test_number" \in DOMAIN Before[j]
                => Some(Before[j].test_number) # Get(Args, "test_number")

\* handling the call raises: sqrt orders a str against 0, or the lookup of
\* a method that got past its guards subscripts a record without the key
Faults ==
    \/ Method = "sqrt" /\ "x" \in DOMAIN Args /\ Args.x.type = "str"
    \/ /\ Method \in LookupMethods
       /\ Authenticated
       /\ DeviceMatches \/ Method = "getTestAcquiredDataAndResults"
       /\ ScanRaises

(* C11  Response envelope (under SpecEnvelope): every decoded call, of any *)
(* method name, params and registry, is answered with exactly one          *)
(* envelope, which holds a result or an error and never both, and carries  *)
(* the id of the request; a call whose handling raises (a record without   *)
(* "test_number" met by the lookup, a str given to sqrt) is answered with  *)
(* error code -32000, the registry and the store left as they were, and    *)
(* -32000 answers no other call.                                           *)
C11_Envelope ==
    Answered =>
        /\ Len(resp) = 1
        /\ DOMAIN resp[1] \in {{"jsonrpc", "id", "result"}, {"jsonrpc", "id", "error"}}
        /\ resp[1].jsonrpc = "2.0"
        /\ resp[1].id = req[1].id
        /\ Faults <=> Failed(-32000)
        /\ Faults => list_of_tests = Before /\ stored_tests = pre[1].stored

\* stopTest, request id 2, on a registry whose second record has no
\* "test_number" and is not the one before a match: answered -32000, id 2
C11_Witness ==
    /\ ValidCall("stopTest") /\ req[1].id = 2
    /\ Len(Before) = 2
    /\ "test_number" \notin DOMAIN Before[2]
    /\ HasArg("test_number", 1)
    /\ Failed(-32000)
    /\ resp[1].error.message = KeyError_test_number
    /\ resp[1].id = 2

(* C12 as stated: a call whose method name is not in the dispatch table    *)
(* returns error code -32601 with a message carrying the name, and leaves  *)
(* the registry unchanged                                                  *)
C12_UnknownMethodAsStated ==
    Answered /\ Method \notin DispatchTable =>
        /\ Failed(-32601)
        /\ resp[1].error.message = <<"Method ", Method, " not implemented">>
        /\ list_of_tests = Before

(* C12  Unknown method, amended (under SpecEnvelope): a call with the      *)
(* configured api_key whose method name is not in the dispatch table       *)
(* returns error code -32601 with a message carrying that name; without    *)
(* the configured api_key it returns error code -401; either way the       *)
(* registry and the store are unchanged.                                   *)
C12_UnknownMethod ==
    Answered /\ Method \notin DispatchTable =>
        /\ IF Authenticated
           THEN /\ Failed(-32601)
                /\ resp[1].error.message = <<"Method ", Method, " not implemented">>
           ELSE Failed(-401)
        /\ list_of_tests = Before
        /\ stored_tests = pre[1].stored

\* a name that differs from a dispatched one by its case only was answered
\* as unknown, by its name
C12_Witness ==
    /\ Answered /\ Method = "getrevision" /\ Authenticated
    /\ Failed(-32601)
    /\ resp[1].error.message = <<"Method ", "getrevision", " not implemented">>

\* the channel records of a test, test.get("list_of_channel_acquired_data", [])
ChannelData(test) == GetOr(test, "list_of_channel_acquired_data", << >>)

\* an authenticated getTestAcquiredDataAndResults has been answered for a
\* test that was RUN with its duration elapsed
AcquiredAfterDuration ==
    /\ Answered /\ Method = "getTestAcquiredDataAndResults" /\ Authenticated
    /\ NamesTest
    /\ Status(Before, Target) = "RUN"
    /\ Elapsed >= test_duration_seconds

(* C13 as stated: for a RUN test queried at or after T + D, the call       *)
(* returns statusCode == END and the stored channel data unchanged, and    *)
(* leaves the test END with stop mode 2 and the same channel data          *)
C13_AcquiredDataAsStated ==
    AcquiredAfterDuration =>
        /\ Succeeded
        /\ "test_status_code" \in DOMAIN resp[1].result
        /\ resp[1].result.test_status_code = "END"
        /\ resp[1].result.list_of_channel_acquired_data = ChannelData(Before[Target])
        /\ Status(list_of_tests, Target) = "END"
        /\ StopMode(list_of_tests[Target]) = Some(2)
        /\ ChannelData(list_of_tests[Target]) = ChannelData(Before[Target])

(* C13  Acquired data after the duration, amended: for a RUN test with     *)
(* sample reception time T and duration D, an authenticated                *)
(* getTestAcquiredDataAndResults at any time >= T + D succeeds and returns *)
(* stop_mode_id 2 and the previously stored channel data unchanged (its    *)
(* result has the members status, list_of_channel_acquired_data and        *)
(* stop_mode_id, no status code), and leaves the test END with             *)
(* stop_mode_id 2 in the registry, its channel data as before the call.    *)
C13_AcquiredData ==
    AcquiredAfterDuration =>
        /\ Succeeded
        /\ DOMAIN resp[1].result
                = {"status", "list_of_channel_acquired_data", "stop_mode_id"}
        /\ resp[1].result.stop_mode_id = Some(2)
        /\ resp[1].result.list_of_channel_acquired_data = ChannelData(Before[Target])
        /\ Status(list_of_tests, Target) = "END"
        /\ StopMode(list_of_tests[Target]) = Some(2)
        /\ ChannelData(list_of_tests[Target]) = ChannelData(Before[Target])

\* the query was made later than T + D on a test started by
\* cloneAndStartTest, and returned the one channel of that test
C13_Witness ==
    /\ AcquiredAfterDuration /\ Succeeded
    /\ Elapsed > test_duration_seconds
    /\ Len(ChannelData(Before[Target])) = 1
    /\ resp[1].result.list_of_channel_acquired_data = ChannelData(Before[Target])
    /\ Status(list_of_tests, Target) = "END"

\* the test a successful cloneAndStartTest has appended
Appended == list_of_tests[Len(list_of_tests)]

(* C14  Clone result (under SpecWaveform): for every peak drawn, a         *)
(* successful cloneAndStartTest appends a test with status RUN,            *)
(* sample_reception_epoch_time equal to the current time and exactly one   *)
(* channel record, whose samples have delta_t = 0, 5, 10, ..., 9995 (2000  *)
(* samples, strictly increasing; delta_t, value and peak scaled by 100),   *)
(* with value = delta_t while delta_t < peak and value = -delta_t + 2*peak *)
(* otherwise: the values rise by one step per sample up to the peak, then  *)
(* fall by one step per sample, and never exceed the peak.                 *)
C14_CloneResult ==
    ValidCall("cloneAndStartTest") /\ Succeeded =>
        LET channels == Appended.list_of_channel_acquired_data
            peak == channels[1].list_of_data_points.maxNewton
            samples == data_points(channels[1])
        IN  /\ Appended.test_status_code = "RUN"
            /\ Appended.sample_reception_epoch_time = pre[1].time
            /\ Len(channels) = 1
            /\ peak >= 5000 /\ peak < 10000
            /\ Len(samples) = 2000
            /\ samples =
                    [k \in 1..2000 |->
                        [delta_t |-> 5 * (k - 1),
                         value |-> IF 5 * (k - 1) < peak
                                   THEN 5 * (k - 1)
                                   ELSE 2 * peak - 5 * (k - 1)]]
            /\ \A k \in 1..1999 :
                    /\ samples[k].delta_t < samples[k + 1].delta_t
                    /\ samples[k + 1].delta_t < peak
                            => samples[k + 1].value = samples[k].value + 5
                    /\ samples[k].delta_t >= peak
                            => samples[k + 1].value = samples[k].value - 5
            /\ \A k \in 1..2000 : samples[k].value <= peak

\* the scenario of the fixture: tests [END, PAUSE], peak 75.0, new test 2,
\* whose waveform reaches 75.0 at delta_t 75.0 and is back at 50.05 at 99.95
C14_Witness ==
    /\ ValidCall("cloneAndStartTest") /\ Succeeded
    /\ Len(Before) = 2
    /\ Status(Before, 1) = "END" /\ Status(Before, 2) = "PAUSE"
    /\ resp[1].result.new_test_number = 2
    /\ Appended.test_status_code = "RUN"
    /\ LET samples == data_points(Appended.list_of_channel_acquired_data[1])
       IN  /\ samples[1501] = [delta_t |-> 7500, value |-> 7500]
           /\ samples[2000] = [delta_t |-> 9995, value |-> 5005]

\* the test numbers of the tests whose specimen code is the one supplied,
\* in registry order
MatchingNumbers ==
    LET matching ==
            SelectSeq(Before,
                LAMBDA test : Get(test, "specimen_code") = Get(Args, "specimen_code"))
    IN  [i \in 1..Len(matching) |-> matching[i].test_number]

(* C15  getListOfAllTestsBySpecimenCode filters by specimen code: when at  *)
(* least one test has the supplied specimen code the call succeeds and its *)
(* result holds, in a member other than status and message, the test       *)
(* numbers of exactly the matching tests; when none matches it fails with  *)
(* error code -1; in both cases the registry is unchanged.                 *)
C15_BySpecimenCode ==
    ValidCall("getListOfAllTestsBySpecimenCode") =>
        /\ list_of_tests = Before
        /\ IF MatchingNumbers # << >>
           THEN /\ Succeeded
                /\ \E k \in (DOMAIN resp[1].result) \ {"status", "message"} :
                        resp[1].result[k] = MatchingNumbers
           ELSE Failed(-1)

\* test i of the registry as the call found it was RUN with its duration
\* elapsed
WasDue(i) ==
    /\ Status(Before, i) = "RUN"
    /\ pre[1].time - Before[i].sample_reception_epoch_time >= test_duration_seconds

\* test i is END with stop mode 2 after the call
NowEnded(i) ==
    /\ Status(list_of_tests, i) = "END"
    /\ StopMode(list_of_tests[i]) = Some(2)

\* a read method that looks a test up by number has got past its guards
\* and found the test
ReadOf(m) ==
    /\ Answered /\ Method = m /\ Authenticated /\ NamesTest
    /\ DeviceMatches \/ m = "getTestAcquiredDataAndResults"

\* the tests getListOfAllTestsBySpecimenCode matches with the code supplied
Matched ==
    {i \in 1..Len(Before) : Get(Before[i], "specimen_code") = Get(Args, "specimen_code")}

(* C16 as stated: every read method that looks up a test                   *)
(* (getTestInfoAndStatus, getTestAcquiredDataAndResults,                   *)
(* getTestAcquisitionSettings, and getListOfAllTestsBySpecimenCode for the *)
(* tests it matches) moves a test that is RUN with elapsed >= duration to  *)
(* END with stop mode 2                                                    *)
C16_AutoCompletionOnReadAsStated ==
    /\ \A m \in {"getTestInfoAndStatus", "getTestAcquiredDataAndResults",
                  "getTestAcquisitionSettings"} :
            ReadOf(m) /\ WasDue(Target) => NowEnded(Target)
    /\ ValidCall("getListOfAllTestsBySpecimenCode") =>
            \A i \in Matched : WasDue(i) => NowEnded(i)

(* C16  Auto-completion on read, amended: getTestInfoAndStatus and         *)
(* getTestAcquiredDataAndResults move the test they look up, when it is    *)
(* RUN with elapsed >= duration, to END with stop mode 2 before computing  *)
(* their response (which reports END, respectively stop mode 2);           *)
(* getTestAcquisitionSettings and getListOfAllTestsBySpecimenCode leave    *)
(* every test, also one that is RUN with its duration elapsed, as it was.  *)
C16_AutoCompletionOnRead ==
    /\ ReadOf("getTestInfoAndStatus") /\ WasDue(Target) =>
            /\ NowEnded(Target)
            /\ Succeeded /\ resp[1].result.test_status_code = "END"
    /\ ReadOf("getTestAcquiredDataAndResults") /\ WasDue(Target) =>
            /\ NowEnded(Target)
            /\ Succeeded /\ resp[1].result.stop_mode_id = Some(2)
    /\ Answered /\ Method \in {"getTestAcquisitionSettings",
                                "getListOfAllTestsBySpecimenCode"} =>
            /\ list_of_tests = Before
            /\ stored_tests = pre[1].stored

\* getTestAcquisitionSettings has succeeded on a test that was RUN with its
\* duration elapsed, and the test is still RUN
C16_Witness ==
    /\ ReadOf("getTestAcquisitionSettings") /\ WasDue(Target)
    /\ Succeeded
    /\ Status(list_of_tests, Target) = "RUN"

\* the step is a call of method m that names the test numbered n
Addresses(m, n) ==
    /\ req = None /\ req' # None
    /\ req'[1].method = m
    /\ "test_number" \in DOMAIN req'[1].params
    /\ req'[1].params.test_number = n

\* a row of the transition table: the step takes the test from one status
\* to another by a call of a method of ms that names it
Row(old, new, from, to, ms) ==
    /\ old.test_status_code = from
    /\ new.test_status_code = to
    /\ \E m \in ms : Addresses(m, old.test_number)

\* the duration of the test has elapsed at the time of the step
Due(old) == now - old.sample_reception_epoch_time >= test_duration_seconds

(* C17  The transition table is exhaustive: statusCode is always RUN,      *)
(* PAUSE or END, and in every step (a call of any method, the clock        *)
(* advancing, a response being delivered) no test leaves the registry, a   *)
(* test's record changes only if the step is a call that names that test,  *)
(* its status changes only by PAUSE->RUN (continueTest), RUN->PAUSE        *)
(* (stopTest, elapsed < duration) or RUN->END (stopTest,                   *)
(* getTestInfoAndStatus or getTestAcquiredDataAndResults, elapsed >=       *)
(* duration), a PAUSE test is changed by nothing but continueTest, and a   *)
(* new test appears only as the one test a cloneAndStartTest call appends, *)
(* in RUN.                                                                 *)
C17_TransitionTable ==
    /\ [](\A i \in 1..Len(list_of_tests) :
            list_of_tests[i].test_status_code \in StatusCodes)
    /\ [][/\ Len(list_of_tests') >= Len(list_of_tests)
          /\ \A i \in 1..Len(list_of_tests) :
                LET old == list_of_tests[i]
                    new == list_of_tests'[i]
                IN  /\ new # old =>
                            \E m \in DispatchTable : Addresses(m, old.test_number)
                    /\ new.test_status_code # old.test_status_code =>
                            \/ Row(old, new, "PAUSE", "RUN", {"continueTest"})
                            \/ /\ Row(old, new, "RUN", "PAUSE", {"stopTest"})
                               /\ ~Due(old)
                            \/ /\ Row(old, new, "RUN", "END",
                                      {"stopTest", "getTestInfoAndStatus",
                                       "getTestAcquiredDataAndResults"})
                               /\ Due(old)
                    /\ old.test_status_code = "PAUSE" /\ new # old =>
                            Addresses("continueTest", old.test_number)
          /\ Len(list_of_tests') > Len(list_of_tests) =>
                /\ Len(list_of_tests') = Len(list_of_tests) + 1
                /\ req = None /\ req' # None
                /\ req'[1].method = "cloneAndStartTest"
                /\ list_of_tests'[Len(list_of_tests')].test_status_code = "RUN"
         ]_vars

\* a getTestAcquiredDataAndResults call that names the second test has
\* ended it, the first test being RUN with its duration elapsed too and
\* left as it was
C17_Witness ==
    /\ Answered /\ Method = "getTestAcquiredDataAndResults" /\ NamesTest
    /\ Target = 2
    /\ Status(Before, 2) = "RUN" /\ Status(list_of_tests, 2) = "END"
    /\ Status(Before, 1) = "RUN"
    /\ pre[1].time - Before[1].sample_reception_epoch_time >= test_duration_seconds
    /\ list_of_tests[1] = Before[1]

\* the tests before the last one that were RUN when the call was made
EarlierRunning == {i \in 1..(Len(Before) - 1) : Status(Before, i) = "RUN"}

(* C18  The clone guard inspects only the last test (under                 *)
(* SpecLifecycle): a valid cloneAndStartTest that names a test of the      *)
(* registry succeeds and appends a test when the last test is PAUSE or     *)
(* END, however many earlier tests are RUN, and fails when the last test   *)
(* is RUN; a valid continueTest on an earlier PAUSE test succeeds while    *)
(* the last test is RUN and leaves both RUN.                               *)
C18_GuardOnLastOnly ==
    /\ ValidCall("cloneAndStartTest") /\ NamesTest =>
            IF Status(Before, Len(Before)) \in {"PAUSE", "END"}
            THEN /\ Succeeded
                 /\ Len(list_of_tests) = Len(Before) + 1
                 /\ \A i \in EarlierRunning : Status(list_of_tests, i) = "RUN"
            ELSE Failed(-1) /\ list_of_tests = Before
    /\ (/\ ValidCall("continueTest") /\ NamesTest
        /\ Target < Len(Before)
        /\ Status(Before, Target) = "PAUSE"
        /\ Status(Before, Len(Before)) = "RUN")
       => /\ Succeeded
          /\ Status(list_of_tests, Target) = "RUN"
          /\ Status(list_of_tests, Len(list_of_tests)) = "RUN"

\* a clone has succeeded on a registry in which two earlier tests were RUN,
\* one of them started or resumed after the catalog was written, and they
\* are RUN still, beside the new test
C18_Witness ==
    /\ ValidCall("cloneAndStartTest") /\ Succeeded
    /\ Cardinality(EarlierRunning) >= 2
    /\ \E i \in EarlierRunning : Before[i].sample_reception_epoch_time > 0
    /\ \A i \in EarlierRunning : Status(list_of_tests, i) = "RUN"
    /\ Status(list_of_tests, Len(list_of_tests)) = "RUN"

\* the value cloneAndStartTest gives a field of the new test: the one of
\* params, or the fixed default
Field(k, default) == IF k \in DOMAIN Args THEN Args[k] ELSE default

(* C19  Clone is independent of the source test (under SpecLifecycle): the *)
(* test a successful cloneAndStartTest appends and its response are fixed  *)
(* by the size of the registry, the clock, the peak and the params other   *)
(* than test_number: the fields absent from params take the defaults       *)
(* "Cloned Test", "001", "Cloned Specimen" and customer id 1, never the    *)
(* values of the source test, and the same call naming any other test of   *)
(* the registry appends the same test and returns the same response.       *)
C19_CloneIndependentOfSource ==
    ValidCall("cloneAndStartTest") /\ Succeeded =>
        LET peak == Appended.list_of_channel_acquired_data[1].list_of_data_points.maxNewton
        IN  /\ Appended =
                    [test_number |-> Len(Before),
                     status |-> "OK",
                     test_description |-> Field("test_description", "Cloned Test"),
                     specimen_code |-> Field("specimen_code", "001"),
                     specimen_description |->
                        Field("specimen_description", "Cloned Specimen"),
                     sample_reception_epoch_time |-> pre[1].time,
                     customer_id |-> Field("customer_id", 1),
                     test_status_code |-> "RUN",
                     list_of_channel_acquired_data |-> <<
                        [stage_name |-> "COMPRESSION_STAGE",
                         sub_stage_index |-> 1,
                         channel_type |-> "Analog",
                         channel_index |-> 1,
                         list_of_data_points |-> [maxNewton |-> peak]] >>]
            /\ resp[1] = [jsonrpc |-> "2.0", id |-> req[1].id,
                          result |-> [status |-> "OK", new_test_number |-> Len(Before)]]
            /\ \A n \in 0..(Len(Before) - 1) :
                    LET other == cloneAndStartTest(Before, pre[1].stored, pre[1].time,
                                    [Args EXCEPT !.test_number = n], req[1].id, peak)
                    IN  /\ other.resp = resp[1]
                        /\ other.tests = list_of_tests

\* a clone without fields in its params has named a source test whose
\* specimen code is not the default, beside another test it could have
\* named, and the new test has the defaults
C19_Witness ==
    /\ ValidCall("cloneAndStartTest") /\ Succeeded /\ NamesTest
    /\ Len(Before) >= 2
    /\ DOMAIN Args = {"api_key", "device_id", "test_number"}
    /\ Before[Target].specimen_code = "002"
    /\ Appended.specimen_code = "001"
    /\ Appended.test_description = "Cloned Test"

-----------------------------------------------------------------------------
(* Vocabulary of the properties: two requests in flight *)

BothServed == tasks # None /\ \A k \in 1..2 : tasks[1].resps[k] # None

\* the registry, the store and the two envelopes when the two calls are
\* handled one after the other, in this order, from the state they arrived in
SerialOrder(first, second) ==
    LET T  == tasks[1]
        a  == T.calls[first]
        b  == T.calls[second]
        o1 == jsonrpc_handler(T.start.tests, T.start.stored, T.start.time,
                              a.method, a.params, a.id, T.maxNewton)
        o2 == jsonrpc_handler(o1.tests, o1.stored, T.start.time,
                              b.method, b.params, b.id, T.maxNewton)
    IN  [tests  |-> o2.tests,
         stored |-> o2.stored,
         resps  |-> [k \in 1..2 |-> IF k = first THEN o1.resp ELSE o2.resp]]

EqualsSerial(first, second) ==
    LET S == SerialOrder(first, second)
    IN  /\ list_of_tests = S.tests
        /\ stored_tests = S.stored
        /\ \A k \in 1..2 : tasks[1].resps[k] = Some(S.resps[k])

\* request k was a cloneAndStartTest and got a success result
CloneWon(k) ==
    /\ tasks[1].calls[k].method = "cloneAndStartTest"
    /\ "result" \in DOMAIN tasks[1].resps[k][1]

(* C20  No lost updates under concurrent requests: while two requests are  *)
(* in flight no handler is suspended between its lookup, guard, mutation   *)
(* and persist; once both are answered, the registry, the store and both   *)
(* envelopes are those of handling the two calls one after the other, in   *)
(* the order in which they returned, from the state they arrived in. In    *)
(* particular two cloneAndStartTest calls never both succeed, no two tests *)
(* of the registry bear the same number, and a continueTest racing a       *)
(* stopTest on the same test leaves it as that serial order does.          *)
C20_NoLostUpdates ==
    /\ tasks # None => \A k \in 1..2 : tasks[1].held[k] = None
    /\ BothServed =>
        /\ EqualsSerial(tasks[1].done[1], tasks[1].done[2])
        /\ ~(CloneWon(1) /\ CloneWon(2))
        /\ \A i, j \in 1..Len(list_of_tests) :
                list_of_tests[i].test_number = list_of_tests[j].test_number
                    => i = j

\* two cloneAndStartTest calls raced on a registry whose last test was not
\* running: one got the new number, the other was refused by the guard, and
\* one test was appended
C20_Witness ==
    /\ BothServed
    /\ \A k \in 1..2 : tasks[1].calls[k].method = "cloneAndStartTest"
    /\ LET T == tasks[1]
           n == Len(T.start.tests)
       IN  /\ n > 0
           /\ T.start.tests[n].test_status_code # "RUN"
           /\ \E k \in 1..2 :
                /\ CloneWon(k)
                /\ T.resps[k][1].result.new_test_number = n
                /\ T.resps[3 - k][1].error.message = "Cannot clone a running test"
           /\ Len(list_of_tests) = n + 1
           /\ stored_tests = list_of_tests

(* C21  Store/registry agreement: whenever a call has returned its         *)
(* response, success or error, the tests saved in the store equal the      *)
(* in-memory registry; in particular the END transition made by stopTest   *)
(* on a test whose duration has elapsed is in the store when the failure   *)
(* is returned.                                                            *)
C21_StoreAgreesWithRegistry ==
    Answered => stored_tests = list_of_tests

\* the tests built by cloneAndStartTest carry the generated channel; those
\* of the catalogs carry no channel data
Cloned(test) == test.list_of_channel_acquired_data # << >>

(* C22  Stop-mode invariant: in every step, a test that the step takes to  *)
(* END has stop_mode_id 2 after it, a test that is END with stop_mode_id 2 *)
(* stays so, and a test that is RUN or PAUSE after the step has the        *)
(* stop_mode_id it had before; and in every state every test created by    *)
(* cloneAndStartTest has stop_mode_id 2 if and only if its status is END.  *)
C22_StopMode ==
    /\ [](\A i \in 1..Len(list_of_tests) :
            Cloned(list_of_tests[i]) =>
                (StopMode(list_of_tests[i]) = Some(2)
                    <=> Status(list_of_tests, i) = "END"))
    /\ [][\A i \in 1..Len(list_of_tests) :
            LET old == list_of_tests[i]
                new == list_of_tests'[i]
            IN  /\ (old.test_status_code # "END" /\ new.test_status_code = "END")
                        => StopMode(new) = Some(2)
                /\ (old.test_status_code = "END" /\ StopMode(old) = Some(2))
                        => (new.test_status_code = "END" /\ StopMode(new) = Some(2))
                /\ new.test_status_code \in {"RUN", "PAUSE"}
                        => StopMode(new) = StopMode(old)]_vars

\* a test created by cloneAndStartTest was RUN without a stop mode, its
\* duration elapsed, and the stopTest just answered took it to END with
\* stop_mode_id 2, beside a test of the catalog that is PAUSE with another
\* stop_mode_id than 2
C22_Witness ==
    /\ Answered /\ Method = "stopTest" /\ NamesTest
    /\ Target = 2
    /\ Cloned(Before[2])
    /\ Status(Before, 2) = "RUN" /\ StopMode(Before[2]) = None
    /\ Status(list_of_tests, 2) = "END" /\ StopMode(list_of_tests[2]) = Some(2)
    /\ Status(list_of_tests, 1) = "PAUSE" /\ StopMode(list_of_tests[1]) = Some(1)

\* the last test of the registry is RUN and its duration has elapsed at time t
LastDue(tests, t) ==
    /\ tests # << >>
    /\ Status(tests, Len(tests)) = "RUN"
    /\ t - tests[Len(tests)].sample_reception_epoch_time >= test_duration_seconds

(* C23  The clone guard uses the stored status, not the time-derived one:  *)
(* a cloneAndStartTest call answered while the last test was RUN with its  *)
(* duration elapsed has failed and left the registry as it found it, the   *)
(* last test still RUN; when the call is authenticated, matches the device *)
(* and names a test, the failure is code -1 "Cannot clone a running test". *)
(* While the last test is RUN with its duration elapsed, no step appends a *)
(* test, the last test changes only by a getTestInfoAndStatus,             *)
(* getTestAcquiredDataAndResults or stopTest call that names it and takes  *)
(* it to END, and as long as it has not changed it is still RUN with its   *)
(* duration elapsed at the later time.                                     *)
C23_GuardUsesStoredStatus ==
    /\ []((Answered /\ Method = "cloneAndStartTest" /\ LastDue(Before, pre[1].time)) =>
            /\ "error" \in DOMAIN resp[1]
            /\ list_of_tests = Before
            /\ (Authenticated /\ DeviceMatches /\ NamesTest) =>
                    /\ Failed(-1)
                    /\ DOMAIN resp[1].error = {"code", "message"}
                    /\ resp[1].error.message = "Cannot clone a running test")
    /\ [][LastDue(list_of_tests, now) =>
            LET n   == Len(list_of_tests)
                old == list_of_tests[n]
            IN  /\ Len(list_of_tests') = n
                /\ list_of_tests'[n] # old =>
                    /\ \E m \in {"getTestInfoAndStatus",
                                 "getTestAcquiredDataAndResults", "stopTest"} :
                            Addresses(m, old.test_number)
                    /\ list_of_tests'[n].test_status_code = "END"
                /\ list_of_tests'[n] = old => LastDue(list_of_tests', now')]_vars

\* the second test was RUN since time 0 and the clock is past its duration
\* by more than a tick: a valid cloneAndStartTest naming the first test has
\* been refused by the guard and the second test is still RUN
C23_Witness ==
    /\ ValidCall("cloneAndStartTest") /\ NamesTest
    /\ Target = 1
    /\ Len(Before) = 2
    /\ LastDue(Before, pre[1].time)
    /\ pre[1].time - Before[2].sample_reception_epoch_time > test_duration_seconds
    /\ Failed(-1)
    /\ resp[1].error.message = "Cannot clone a running test"
    /\ list_of_tests = Before
    /\ Status(list_of_tests, 2) = "RUN"

====
